---- MODULE Spec2Model ----
(***************************************************************************)
(* Self-signed TLS identity management of the test server                  *)
(* (go/server/main.go: getCerts, generateKey, generateCert).               *)
(*                                                                         *)
(* The certificate directory is modelled as two files, each a sequence of  *)
(* PEM blocks with an optional tail of bytes that belong to no block.      *)
(* Every library call of getCerts is one step of the calling process, so   *)
(* the states between two file operations are visible.                     *)
(***************************************************************************)
EXTENDS Integers, Sequences, FiniteSets, TLC

\* ---------------------------------------------------------------- bounds
\* number of distinct private keys the random source can produce
MaxKey == 2
\* width, in bits, of the signed integer type standing for int64
IntBits == 3
\* number of getCerts invocations explored
MaxCalls == 2
\* number of doClient goroutines of the load-generation client (-threads)
MaxThreads == 2
\* the request counter of a worker is followed up to this value
MaxReqs == 2
\* the server processes that are started on the directory
Procs == {1, 2}
Keys == 1..MaxKey

\* math.MaxInt64 at the modelled width
MaxInt64 == 2^(IntBits - 1) - 1

\* ------------------------------------------------------------ file system
certName == "server.crt"
keyName == "server.key"
Paths == {certName, keyName}

\* filepath.Join(dir, name); the directory of the run is "certs"
Join(dir, name) == <<dir, name>>
certDir == "certs"

\* permission bits, as sets: 0444, 0022, 0077
Perm0444 == {"ur", "gr", "or"}
Umask022 == {"gw", "ow"}
Umask077 == {"gr", "gw", "gx", "or", "ow", "ox"}

NoFile == [exists |-> FALSE, blocks |-> <<>>, trailing |-> FALSE, mode |-> {}, by |-> 0]

\* encoding/pem.EncodeToMemory: exactly one block and nothing after it
EncodeToMemory(type, der) == [blocks |-> <<[type |-> type, der |-> der]>>, trailing |-> FALSE]

\* the address net.IPv4(127, 0, 0, 1)
Loopback == "127.0.0.1"

\* key.Public()
Public(k) == [pubOf |-> k]

\* x509.MarshalECPrivateKey
MarshalECPrivateKey(k) == [tag |-> "eckey", key |-> k, pub |-> Public(k), signedBy |-> Public(k),
                           serial |-> 0, dns |-> {}, ips |-> {}, notAfter |-> "none"]

\* the template of generateCert: no DNSNames, IPAddresses = [127.0.0.1],
\* NotAfter = time.Now().AddDate(1, 0, 0)
Template(serial) == [serial |-> serial, dns |-> {}, ips |-> {Loopback}, notAfter |-> "inOneYear"]

\* x509.CreateCertificate(rand, &template, &template, pub, priv): self-signed
CreateCertificate(template, pub, priv) ==
    [tag |-> "cert", key |-> 0, pub |-> pub, signedBy |-> Public(priv),
     serial |-> template.serial, dns |-> template.dns, ips |-> template.ips,
     notAfter |-> template.notAfter]

GarbageDER == [tag |-> "garbage", key |-> 0, pub |-> Public(0), signedBy |-> Public(0),
               serial |-> 0, dns |-> {}, ips |-> {}, notAfter |-> "none"]

\* content of a file holding `data`, created by call `by` with mode `mode`
FileOf(data, mode, by) ==
    [exists |-> TRUE, blocks |-> data.blocks, trailing |-> data.trailing, mode |-> mode, by |-> by]

\* the bytes of a file, without its mode and without the writer's stamp
Bytes(f) == [exists |-> f.exists, blocks |-> f.blocks, trailing |-> f.trailing]

\* x509.ParseCertificate(der) succeeds
ParsesAsCertificate(der) == der.tag = "cert"

\* ------------------------------------------------------ reading the files
\* the file is exactly one CERTIFICATE block, nothing after it, and the block parses
LoadsAsCert(f) ==
    /\ f.exists
    /\ Len(f.blocks) = 1
    /\ ~f.trailing
    /\ f.blocks[1].type = "CERTIFICATE"
    /\ ParsesAsCertificate(f.blocks[1].der)

\* the file is exactly one EC PRIVATE KEY block holding a key
LoadsAsKey(f) ==
    /\ f.exists
    /\ Len(f.blocks) = 1
    /\ ~f.trailing
    /\ f.blocks[1].type = "EC PRIVATE KEY"
    /\ f.blocks[1].der.tag = "eckey"

CertIn(f) == f.blocks[1].der
KeyIn(f) == f.blocks[1].der.key

\* the key file holds the private key of the certificate's public key
PairMatches(c, k) == LoadsAsCert(c) /\ LoadsAsKey(k) /\ CertIn(c).pub = Public(KeyIn(k))

\* the certificate's SAN lists hold everything the request names
Covers(c, r) == r.dns \subseteq CertIn(c).dns /\ r.ips \subseteq CertIn(c).ips

\* ------------------------------------------------------------------ state
VARIABLES
    dirExists,    \* the directory certs/ exists
    fs,           \* fs[name]: the file of that name in the directory
    umask,        \* the process umask, a set of permission bits
    asRoot,       \* the server runs with CAP_DAC_OVERRIDE
    dirWritable,  \* the directory's mode lets the server's user add and remove entries
    pc,           \* pc[p]: where process p is inside main/getCerts
    requested,    \* requested[p]: the identity the caller of p wants (DNS SANs, IP SANs)
    key,          \* key[p]: the local `key` of getCerts (0: nil)
    serialNumber, \* serialNumber[p]: the local of generateCert
    certDer,      \* certDer[p]: the local of generateCert
    ret,          \* ret[p]: what getCerts returned to main
    callNo,       \* callNo[p]: which invocation of getCerts p is in (0: none)
    before,       \* before[p]: the directory and the last outcome when p called getCerts
    failed,       \* failed[p]: the library call that failed in this invocation
    calls,        \* number of getCerts invocations so far
    lastDone,     \* outcome of the invocation that returned last
    \* the load-generation client (go/client/main.go)
    ctxDone,      \* the context of signal.NotifyContext is cancelled
    interval,     \* the -interval flag (0: no ticker)
    urlValid,     \* http.NewRequestWithContext accepts the URL argument
    mainPc,       \* where the client's main is
    wg,           \* the WaitGroup counter
    wpc,          \* wpc[w]: where worker w is inside doClient
    tick,         \* tick[w]: a tick is waiting in ticker.C of worker w
    live,         \* live[w]: the context was not cancelled when client.Do began
    reqs,         \* reqs[w]: the local reqs of doClient, followed up to MaxReqs
    after         \* after[w]: requests w began once the context was cancelled

serverVars == <<dirExists, fs, umask, asRoot, dirWritable, pc, requested, key, serialNumber,
                certDer, ret, callNo, before, failed, calls, lastDone>>

clientVars == <<ctxDone, interval, urlValid, mainPc, wg, wpc, tick, live, reqs, after>>

vars == <<serverVars, clientVars>>

Workers == 1..MaxThreads

\* the client is not running
ClientOff ==
    /\ ctxDone = FALSE
    /\ interval = 0
    /\ urlValid = TRUE
    /\ mainPc = "off"
    /\ wg = 0
    /\ wpc = [w \in Workers |-> "off"]
    /\ tick = [w \in Workers |-> FALSE]
    /\ live = [w \in Workers |-> FALSE]
    /\ reqs = [w \in Workers |-> 0]
    /\ after = [w \in Workers |-> 0]

\* identity requests: what the -san flag can collect
DnsNames == {"extra.local"}
IpAddrs == {Loopback}
Requests == [dns : SUBSET DnsNames, ips : SUBSET IpAddrs]
NoRequest == [dns |-> {}, ips |-> {}]

NoReturn == [certFile |-> <<>>, keyFile |-> <<>>, err |-> "none"]
NoOutcome == [valid |-> FALSE, ok |-> FALSE, req |-> NoRequest]
NoBefore == [dirExists |-> FALSE, dirWritable |-> FALSE, cert |-> NoFile, key |-> NoFile, prev |-> NoOutcome]

\* a key file and a certificate file as an earlier run of getCerts leaves them
KeyFileOf(k) == FileOf(EncodeToMemory("EC PRIVATE KEY", MarshalECPrivateKey(k)), Perm0444, 0)
CertFileOf(k, serial) ==
    FileOf(EncodeToMemory("CERTIFICATE", CreateCertificate(Template(serial), Public(k), k)),
           Perm0444, 0)

\* certificate files that do not load as exactly one CERTIFICATE block
CorruptCertFiles ==
    LET good == [type |-> "CERTIFICATE", der |-> CreateCertificate(Template(0), Public(1), 1)]
        mk(blocks, trailing) ==
            [exists |-> TRUE, blocks |-> blocks, trailing |-> trailing, mode |-> Perm0444, by |-> 0]
    IN  { mk(<<>>, FALSE),                                          \* zero bytes
          mk(<<[type |-> "EC PRIVATE KEY", der |-> good.der]>>, FALSE), \* wrong block type
          mk(<<good, good>>, FALSE),                                \* more than one block
          mk(<<good>>, TRUE),                                       \* bytes after the block
          mk(<<[type |-> "CERTIFICATE", der |-> GarbageDER]>>, FALSE) } \* does not parse

\* the directory when the server starts
InitDirs ==
    {[dirExists |-> FALSE, cert |-> NoFile, key |-> NoFile]}
    \cup {[dirExists |-> TRUE, cert |-> NoFile, key |-> NoFile]}
    \cup {[dirExists |-> TRUE, cert |-> CertFileOf(k, 0), key |-> KeyFileOf(k)] : k \in Keys}
    \cup {[dirExists |-> TRUE, cert |-> CertFileOf(k, 0), key |-> NoFile] : k \in Keys}
    \cup {[dirExists |-> TRUE, cert |-> c, key |-> KeyFileOf(1)] : c \in CorruptCertFiles}

Init ==
    /\ \E d \in InitDirs :
        /\ dirExists = d.dirExists
        /\ fs = [n \in Paths |-> IF n = certName THEN d.cert ELSE d.key]
    /\ umask \in {Umask022, Umask077}
    /\ asRoot \in BOOLEAN
    /\ dirWritable \in (IF dirExists THEN BOOLEAN ELSE {FALSE})
    /\ pc = [p \in Procs |-> "idle"]
    /\ requested = [p \in Procs |-> NoRequest]
    /\ key = [p \in Procs |-> 0]
    /\ serialNumber = [p \in Procs |-> 0]
    /\ certDer = [p \in Procs |-> GarbageDER]
    /\ ret = [p \in Procs |-> NoReturn]
    /\ callNo = [p \in Procs |-> 0]
    /\ before = [p \in Procs |-> NoBefore]
    /\ failed = [p \in Procs |-> "none"]
    /\ calls = 0
    /\ lastDone = NoOutcome
    /\ ClientOff

\* ------------------------------------------------------------- os package
\* os.Remove(name): the entry goes when the directory lets it; the caller drops the error
Remove(f) == IF f.exists /\ dirExists /\ (dirWritable \/ asRoot) THEN NoFile ELSE f

\* a write that stopped early: no complete block, with or without some bytes
PartialData == {[blocks |-> <<>>, trailing |-> t] : t \in BOOLEAN}

\* os.WriteFile(name, data, perm): open with O_WRONLY|O_CREATE|O_TRUNC, write, close.
\* perm (less the umask) is the mode of a file the call creates; an existing file
\* keeps its mode and is opened only if that mode (or root) allows writing.
\* The set of outcomes [file, ok].
WriteFile(f, data, perm, by) ==
    LET canOpen == /\ dirExists
                   /\ IF f.exists THEN "uw" \in f.mode \/ asRoot ELSE dirWritable \/ asRoot
        mode == IF f.exists THEN f.mode ELSE perm \ umask
    IN  {[file |-> f, ok |-> FALSE]}
        \cup (IF canOpen
              THEN {[file |-> FileOf(data, mode, by), ok |-> TRUE]}
                   \cup {[file |-> FileOf(d, mode, by), ok |-> FALSE] : d \in PartialData}
              ELSE {})

\* ------------------------------------------------------------- operations
certFile(dir) == Join(dir, certName)
keyFile(dir) == Join(dir, keyName)

\* getCerts returns ("", "", err)
ReturnErr(p, step) ==
    /\ pc' = [pc EXCEPT ![p] = "done"]
    /\ ret' = [ret EXCEPT ![p] = [certFile |-> <<>>, keyFile |-> <<>>, err |-> step]]
    /\ failed' = [failed EXCEPT ![p] = step]
    /\ lastDone' = [valid |-> TRUE, ok |-> FALSE, req |-> requested[p]]

\* getCerts as it would be with a reuse test that looks at the certificate only
GetCertsCallReusingCert(p) ==
    /\ pc[p] = "idle"
    /\ calls < MaxCalls
    /\ calls' = calls + 1
    /\ callNo' = [callNo EXCEPT ![p] = calls + 1]
    /\ before' = [before EXCEPT ![p] =
                    [dirExists |-> dirExists, dirWritable |-> dirWritable,
                     cert |-> fs[certName], key |-> fs[keyName], prev |-> lastDone]]
    /\ \E r \in Requests :
        /\ requested' = [requested EXCEPT ![p] = r]
        /\ IF LoadsAsCert(fs[certName]) /\ Covers(fs[certName], r)
           THEN /\ pc' = [pc EXCEPT ![p] = "done"]
                /\ ret' = [ret EXCEPT ![p] = [certFile |-> Join(certDir, certName),
                                              keyFile |-> Join(certDir, keyName),
                                              err |-> "nil"]]
                /\ lastDone' = [valid |-> TRUE, ok |-> TRUE, req |-> r]
           ELSE /\ pc' = [pc EXCEPT ![p] = "mkdir"]
                /\ UNCHANGED <<ret, lastDone>>
    /\ UNCHANGED <<dirExists, fs, umask, asRoot, dirWritable, key, serialNumber, certDer,
                   failed>>
    /\ UNCHANGED clientVars

\* main: flag.Parse, then the call of getCerts(*certDir)
GetCertsCall(p) ==
    /\ pc[p] = "idle"
    /\ calls < MaxCalls
    /\ calls' = calls + 1
    /\ callNo' = [callNo EXCEPT ![p] = calls + 1]
    /\ \E r \in Requests : requested' = [requested EXCEPT ![p] = r]
    /\ before' = [before EXCEPT ![p] =
                    [dirExists |-> dirExists, dirWritable |-> dirWritable,
                     cert |-> fs[certName], key |-> fs[keyName], prev |-> lastDone]]
    /\ pc' = [pc EXCEPT ![p] = "mkdir"]
    /\ UNCHANGED <<dirExists, fs, umask, asRoot, dirWritable, key, serialNumber, certDer,
                   ret, failed, lastDone>>
    /\ UNCHANGED clientVars

\* os.Mkdir(dir, 0755), error dropped: a new directory is writable by its owner
Mkdir(p) ==
    /\ pc[p] = "mkdir"
    /\ \/ dirExists' = dirExists /\ dirWritable' = dirWritable
       \/ ~dirExists /\ dirExists' = TRUE /\ dirWritable' = TRUE
    /\ pc' = [pc EXCEPT ![p] = "rmCert"]
    /\ UNCHANGED <<fs, umask, asRoot, requested, key, serialNumber, certDer, ret, callNo,
                   before, failed, calls, lastDone>>
    /\ UNCHANGED clientVars

\* getCerts without the os.Remove(certFile) line
RemoveCertSkipped(p) ==
    /\ pc[p] = "rmCert"
    /\ pc' = [pc EXCEPT ![p] = "rmKey"]
    /\ UNCHANGED <<dirExists, fs, umask, asRoot, dirWritable, requested, key, serialNumber,
                   certDer, ret, callNo, before, failed, calls, lastDone>>
    /\ UNCHANGED clientVars

\* getCerts removing the certificate only after it has loaded
RemoveCertIfValid(p) ==
    /\ pc[p] = "rmCert"
    /\ fs' = [fs EXCEPT ![certName] = IF LoadsAsCert(@) THEN Remove(@) ELSE @]
    /\ pc' = [pc EXCEPT ![p] = "rmKey"]
    /\ UNCHANGED <<dirExists, umask, asRoot, dirWritable, requested, key, serialNumber,
                   certDer, ret, callNo, before, failed, calls, lastDone>>
    /\ UNCHANGED clientVars

\* os.Remove(certFile)
RemoveCert(p) ==
    /\ pc[p] = "rmCert"
    /\ fs' = [fs EXCEPT ![certName] = Remove(fs[certName])]
    /\ pc' = [pc EXCEPT ![p] = "rmKey"]
    /\ UNCHANGED <<dirExists, umask, asRoot, dirWritable, requested, key, serialNumber,
                   certDer, ret, callNo, before, failed, calls, lastDone>>
    /\ UNCHANGED clientVars

\* os.Remove(keyFile)
RemoveKey(p) ==
    /\ pc[p] = "rmKey"
    /\ fs' = [fs EXCEPT ![keyName] = Remove(fs[keyName])]
    /\ pc' = [pc EXCEPT ![p] = "genKey"]
    /\ UNCHANGED <<dirExists, umask, asRoot, dirWritable, requested, key, serialNumber,
                   certDer, ret, callNo, before, failed, calls, lastDone>>
    /\ UNCHANGED clientVars

\* generateKey: ecdsa.GenerateKey(elliptic.P256(), rand.Reader)
GenerateKey(p) ==
    /\ pc[p] = "genKey"
    /\ \/ /\ ReturnErr(p, "GenerateKey")
          /\ UNCHANGED key
       \/ /\ \E k \in Keys : key' = [key EXCEPT ![p] = k]
          /\ pc' = [pc EXCEPT ![p] = "writeKey"]
          /\ UNCHANGED <<ret, failed, lastDone>>
    /\ UNCHANGED <<dirExists, fs, umask, asRoot, dirWritable, requested, serialNumber,
                   certDer, callNo, before, calls>>
    /\ UNCHANGED clientVars

\* generateKey dropping the error of os.WriteFile
WriteKeyFileIgnoringError(p) ==
    /\ pc[p] = "writeKey"
    /\ LET keyPEM == EncodeToMemory("EC PRIVATE KEY", MarshalECPrivateKey(key[p]))
       IN  \E w \in WriteFile(fs[keyName], keyPEM, Perm0444, callNo[p]) :
             /\ fs' = [fs EXCEPT ![keyName] = w.file]
             /\ failed' = [failed EXCEPT ![p] = IF w.ok THEN @ ELSE "WriteFile(keyFile)"]
    /\ pc' = [pc EXCEPT ![p] = "serial"]
    /\ UNCHANGED <<dirExists, umask, asRoot, dirWritable, requested, key, serialNumber,
                   certDer, ret, callNo, before, calls, lastDone>>
    /\ UNCHANGED clientVars

\* generateKey: marshal, PEM-encode, os.WriteFile(keyFile, keyPEM, 0444), return key
WriteKeyFile(p) ==
    /\ pc[p] = "writeKey"
    /\ LET keyPEM == EncodeToMemory("EC PRIVATE KEY", MarshalECPrivateKey(key[p]))
       IN  \E w \in WriteFile(fs[keyName], keyPEM, Perm0444, callNo[p]) :
             /\ fs' = [fs EXCEPT ![keyName] = w.file]
             /\ IF w.ok
                THEN /\ pc' = [pc EXCEPT ![p] = "serial"]
                     /\ UNCHANGED <<ret, failed, lastDone>>
                ELSE ReturnErr(p, "WriteFile(keyFile)")
    /\ UNCHANGED <<dirExists, umask, asRoot, dirWritable, requested, key, serialNumber,
                   certDer, callNo, before, calls>>
    /\ UNCHANGED clientVars

\* rand.Int as it would be with an inclusive upper limit
RandIntInclusive(max) == 0..max

\* crypto/rand.Int(rand.Reader, max): a value in [0, max)
RandInt(max) == 0..(max - 1)

\* generateCert: rand.Int(rand.Reader, big.NewInt(math.MaxInt64))
SerialNumber(p) ==
    /\ pc[p] = "serial"
    /\ \/ /\ ReturnErr(p, "rand.Int")
          /\ UNCHANGED serialNumber
       \/ /\ \E n \in RandInt(MaxInt64) : serialNumber' = [serialNumber EXCEPT ![p] = n]
          /\ pc' = [pc EXCEPT ![p] = "sign"]
          /\ UNCHANGED <<ret, failed, lastDone>>
    /\ UNCHANGED <<dirExists, fs, umask, asRoot, dirWritable, requested, key, certDer,
                   callNo, before, calls>>
    /\ UNCHANGED clientVars

\* generateCert: the template and x509.CreateCertificate(.., key.Public(), key)
SignCert(p) ==
    /\ pc[p] = "sign"
    /\ \/ /\ ReturnErr(p, "CreateCertificate")
          /\ UNCHANGED certDer
       \/ /\ certDer' = [certDer EXCEPT ![p] =
                           CreateCertificate(Template(serialNumber[p]), Public(key[p]), key[p])]
          /\ pc' = [pc EXCEPT ![p] = "writeCert"]
          /\ UNCHANGED <<ret, failed, lastDone>>
    /\ UNCHANGED <<dirExists, fs, umask, asRoot, dirWritable, requested, key, serialNumber,
                   callNo, before, calls>>
    /\ UNCHANGED clientVars

\* generateCert: PEM-encode, os.WriteFile(certFile, certPem, 0444)
WriteCertFile(p) ==
    /\ pc[p] = "writeCert"
    /\ LET certPem == EncodeToMemory("CERTIFICATE", certDer[p])
       IN  \E w \in WriteFile(fs[certName], certPem, Perm0444, callNo[p]) :
             /\ fs' = [fs EXCEPT ![certName] = w.file]
             /\ IF w.ok
                THEN /\ pc' = [pc EXCEPT ![p] = "parse"]
                     /\ UNCHANGED <<ret, failed, lastDone>>
                ELSE ReturnErr(p, "WriteFile(certFile)")
    /\ UNCHANGED <<dirExists, umask, asRoot, dirWritable, requested, key, serialNumber,
                   certDer, callNo, before, calls>>
    /\ UNCHANGED clientVars

\* generateCert: return x509.ParseCertificate(certDer); getCerts: return the two paths
ParseAndReturn(p) ==
    /\ pc[p] = "parse"
    /\ IF ParsesAsCertificate(certDer[p])
       THEN /\ pc' = [pc EXCEPT ![p] = "done"]
            /\ ret' = [ret EXCEPT ![p] = [certFile |-> certFile(certDir),
                                          keyFile |-> keyFile(certDir), err |-> "nil"]]
            /\ lastDone' = [valid |-> TRUE, ok |-> TRUE, req |-> requested[p]]
            /\ UNCHANGED failed
       ELSE ReturnErr(p, "ParseCertificate")
    /\ UNCHANGED <<dirExists, fs, umask, asRoot, dirWritable, requested, key, serialNumber,
                   certDer, callNo, before, calls>>
    /\ UNCHANGED clientVars

\* main after getCerts: log.Fatal(err), or listen and serve until the process ends
MainAfter(p) ==
    /\ pc[p] = "done"
    /\ pc' = [pc EXCEPT ![p] = "idle"]
    /\ requested' = [requested EXCEPT ![p] = NoRequest]
    /\ key' = [key EXCEPT ![p] = 0]
    /\ serialNumber' = [serialNumber EXCEPT ![p] = 0]
    /\ certDer' = [certDer EXCEPT ![p] = GarbageDER]
    /\ ret' = [ret EXCEPT ![p] = NoReturn]
    /\ callNo' = [callNo EXCEPT ![p] = 0]
    /\ before' = [before EXCEPT ![p] = NoBefore]
    /\ failed' = [failed EXCEPT ![p] = "none"]
    /\ UNCHANGED <<dirExists, fs, umask, asRoot, dirWritable, calls, lastDone>>
    /\ UNCHANGED clientVars

\* one step of an invocation in progress
Step(p) ==
    \/ Mkdir(p)
    \/ RemoveCert(p)
    \/ RemoveKey(p)
    \/ GenerateKey(p)
    \/ WriteKeyFile(p)
    \/ SerialNumber(p)
    \/ SignCert(p)
    \/ WriteCertFile(p)
    \/ ParseAndReturn(p)
    \/ MainAfter(p)

\* the server is started once at a time: a run begins when no other is in getCerts
Next ==
    \/ \E p \in Procs : (\A q \in Procs : pc[q] = "idle") /\ GetCertsCall(p)
    \/ \E p \in Procs : Step(p)

Spec == Init /\ [][Next]_vars

\* ------------------------------------------------------- concurrent starts
\* a start that first takes a lock on the directory, held until main is past getCerts
StartLocked(p) ==
    /\ \A q \in Procs : pc[q] = "idle"
    /\ calls < Cardinality(Procs)
    /\ GetCertsCall(p)
    /\ requested'[p] = NoRequest

\* main of another server process on the same directory, started without -san:
\* getCerts takes no lock and looks at no other process. main calls getCerts
\* once in the life of a process, so there are as many calls as processes.
Start(p) ==
    /\ calls < Cardinality(Procs)
    /\ GetCertsCall(p)
    /\ requested'[p] = NoRequest

NextConcurrent ==
    \/ \E p \in Procs : Start(p)
    \/ \E p \in Procs : Step(p)

\* two servers are started on a writable directory that holds a pair
InitConcurrent ==
    /\ dirExists = TRUE
    /\ fs = [n \in Paths |-> IF n = certName THEN CertFileOf(1, 0) ELSE KeyFileOf(1)]
    /\ umask = Umask022
    /\ asRoot = FALSE
    /\ dirWritable = TRUE
    /\ pc = [p \in Procs |-> "idle"]
    /\ requested = [p \in Procs |-> NoRequest]
    /\ key = [p \in Procs |-> 0]
    /\ serialNumber = [p \in Procs |-> 0]
    /\ certDer = [p \in Procs |-> GarbageDER]
    /\ ret = [p \in Procs |-> NoReturn]
    /\ callNo = [p \in Procs |-> 0]
    /\ before = [p \in Procs |-> NoBefore]
    /\ failed = [p \in Procs |-> "none"]
    /\ calls = 0
    /\ lastDone = NoOutcome
    /\ ClientOff

SpecConcurrent == InitConcurrent /\ [][NextConcurrent]_vars

\* --------------------------------------------------------- identity policy
\* CertStore.load: the file must decode to exactly one block of type CERTIFICATE
\* with no bytes after it, and the block must parse; anything else is "no valid
\* certificate present"
Load(f) ==
    LET invalid == [ok |-> FALSE, cert |-> GarbageDER]
    IN  IF ~f.exists THEN invalid
        ELSE IF f.blocks = <<>> THEN invalid
        ELSE IF Head(f.blocks).type # "CERTIFICATE" THEN invalid
        ELSE IF Tail(f.blocks) # <<>> \/ f.trailing THEN invalid
        ELSE IF ~ParsesAsCertificate(Head(f.blocks).der) THEN invalid
        ELSE [ok |-> TRUE, cert |-> Head(f.blocks).der]

\* a decision that also asks the certificate not to have expired
decideUnexpired(existingCert, existingKeyPresent, req) ==
    IF ~existingKeyPresent THEN "REGENERATE"
    ELSE IF ~existingCert.ok THEN "REGENERATE"
    ELSE IF existingCert.cert.notAfter = "past" THEN "REGENERATE"
    ELSE IF \E n \in req.dns : n \notin existingCert.cert.dns THEN "REGENERATE"
    ELSE IF \E a \in req.ips : a \notin existingCert.cert.ips THEN "REGENERATE"
    ELSE "REUSE"

\* IdentityPolicy.decide, steps 1 to 5
decide(existingCert, existingKeyPresent, req) ==
    IF ~existingKeyPresent THEN "REGENERATE"
    ELSE IF ~existingCert.ok THEN "REGENERATE"
    ELSE IF \E n \in req.dns : n \notin existingCert.cert.dns THEN "REGENERATE"
    ELSE IF \E a \in req.ips : a \notin existingCert.cert.ips THEN "REGENERATE"
    ELSE "REUSE"

\* IdentityManager.ensure up to its decision: on REUSE the existing paths are
\* returned untouched, on REGENERATE the generation of getCerts runs
EnsureCall(p) ==
    /\ pc[p] = "idle"
    /\ calls < MaxCalls
    /\ calls' = calls + 1
    /\ callNo' = [callNo EXCEPT ![p] = calls + 1]
    /\ before' = [before EXCEPT ![p] =
                    [dirExists |-> dirExists, dirWritable |-> dirWritable,
                     cert |-> fs[certName], key |-> fs[keyName], prev |-> lastDone]]
    /\ \E r \in Requests :
        /\ requested' = [requested EXCEPT ![p] = r]
        /\ IF decide(Load(fs[certName]), fs[keyName].exists, r) = "REUSE"
           THEN /\ pc' = [pc EXCEPT ![p] = "done"]
                /\ ret' = [ret EXCEPT ![p] = [certFile |-> certFile(certDir),
                                              keyFile |-> keyFile(certDir),
                                              err |-> "nil"]]
                /\ lastDone' = [valid |-> TRUE, ok |-> TRUE, req |-> r]
           ELSE /\ pc' = [pc EXCEPT ![p] = "mkdir"]
                /\ UNCHANGED <<ret, lastDone>>
    /\ UNCHANGED <<dirExists, fs, umask, asRoot, dirWritable, key, serialNumber, certDer,
                   failed>>
    /\ UNCHANGED clientVars

\* certificates of an earlier issue: any SAN lists, expired or not
IssuedCertFiles ==
    { FileOf(EncodeToMemory("CERTIFICATE",
                 CreateCertificate([serial |-> 0, dns |-> d, ips |-> i, notAfter |-> t],
                                   Public(1), 1)),
             Perm0444, 0) :
        d \in SUBSET DnsNames, i \in SUBSET IpAddrs, t \in {"inOneYear", "past"} }

\* the directories the policy is asked about
PolicyDirs ==
    {[cert |-> c, key |-> k] : c \in IssuedCertFiles \cup CorruptCertFiles \cup {NoFile},
                               k \in {KeyFileOf(1), NoFile}}

InitPolicy ==
    /\ dirExists = TRUE
    /\ \E d \in PolicyDirs : fs = [n \in Paths |-> IF n = certName THEN d.cert ELSE d.key]
    /\ umask = Umask022
    /\ asRoot = FALSE
    /\ dirWritable = TRUE
    /\ pc = [p \in Procs |-> "idle"]
    /\ requested = [p \in Procs |-> NoRequest]
    /\ key = [p \in Procs |-> 0]
    /\ serialNumber = [p \in Procs |-> 0]
    /\ certDer = [p \in Procs |-> GarbageDER]
    /\ ret = [p \in Procs |-> NoReturn]
    /\ callNo = [p \in Procs |-> 0]
    /\ before = [p \in Procs |-> NoBefore]
    /\ failed = [p \in Procs |-> "none"]
    /\ calls = 0
    /\ lastDone = NoOutcome
    /\ ClientOff

NextPolicy ==
    \/ \E p \in Procs : (\A q \in Procs : pc[q] = "idle") /\ EnsureCall(p)
    \/ \E p \in Procs : Step(p)

SpecPolicy == InitPolicy /\ [][NextPolicy]_vars

\* ------------------------------------------------------- claim vocabulary
Returned(p) == pc[p] = "done"
ReturnedPaths(p) ==
    /\ Returned(p)
    /\ ret[p].err = "nil"
    /\ ret[p].certFile = certFile(certDir)
    /\ ret[p].keyFile = keyFile(certDir)

\* both files on disk were written by the invocation p is in, and they are a pair
FreshPair(p) ==
    /\ fs[certName].by = callNo[p]
    /\ fs[keyName].by = callNo[p]
    /\ PairMatches(fs[certName], fs[keyName])

\* the directory is as it was when p called getCerts
Untouched(p) == fs[certName] = before[p].cert /\ fs[keyName] = before[p].key

\* the invocation before p's returned paths
AfterSuccess(p) == callNo[p] > 0 /\ before[p].prev.valid /\ before[p].prev.ok

\* ------------------------------------------------------------------ claims

\* C1: getCerts on an empty directory that succeeds leaves a certificate whose
\* SAN lists hold every DNS name and IP address of the request, and a key file
\* holding the private key of the certificate's public key.
C1_RequestedSansCertified ==
    \A p \in Procs :
        (ReturnedPaths(p) /\ ~before[p].cert.exists /\ ~before[p].key.exists)
            => /\ PairMatches(fs[certName], fs[keyName])
               /\ Covers(fs[certName], requested[p])

\* C2: a second call with the same request, right after a successful one, reuses:
\* both files hold the bytes the first call left and the two paths are returned.
\* (Stated for the calls in which no library call fails.)
C2_SecondCallReuses ==
    \A p \in Procs :
        (/\ Returned(p)
         /\ failed[p] = "none"
         /\ AfterSuccess(p)
         /\ before[p].prev.req = requested[p])
            => /\ Bytes(fs[certName]) = Bytes(before[p].cert)
               /\ Bytes(fs[keyName]) = Bytes(before[p].key)
               /\ ReturnedPaths(p)

\* C3: after a successful call for R1, a call for R2 whose SAN sets are subsets
\* of R1's reuses and changes neither file.
\* (Stated for the calls in which no library call fails.)
C3_SubsetRequestReuses ==
    \A p \in Procs :
        (/\ Returned(p)
         /\ failed[p] = "none"
         /\ AfterSuccess(p)
         /\ requested[p].dns \subseteq before[p].prev.req.dns
         /\ requested[p].ips \subseteq before[p].prev.req.ips)
            => Untouched(p) /\ ReturnedPaths(p)

\* C4: after a successful call for R1, a successful call for R2 that names a DNS
\* name R1 did not leaves a new pair whose certificate holds everything R2 names
\* and whose DNS SANs are R2's alone.
C4_GrowthRegeneratesForRequest ==
    \A p \in Procs :
        (/\ ReturnedPaths(p)
         /\ AfterSuccess(p)
         /\ requested[p].dns \ before[p].prev.req.dns # {})
            => /\ FreshPair(p)
               /\ Covers(fs[certName], requested[p])
               /\ CertIn(fs[certName]).dns = requested[p].dns

\* the file is there and does not load as a certificate
CorruptCert(f) == f.exists /\ ~LoadsAsCert(f)

\* the errors getCerts hands on from generateKey and generateCert
GenerationErrors == {"GenerateKey", "WriteFile(keyFile)", "rand.Int", "CreateCertificate",
                     "WriteFile(certFile)", "ParseCertificate"}

\* the server's user may add and remove entries of the directory p found
MayChangeDir(p) == asRoot \/ before[p].dirWritable \/ ~before[p].dirExists

\* C5: a certificate file that is empty, of the wrong block type, of several
\* blocks, followed by more bytes, or unparseable never makes getCerts fail: the
\* file is removed like any other, an error comes only from a failed generation
\* step, and a return of paths leaves both files newly written.
C5_CorruptCertRegenerated ==
    \A p \in Procs :
        (callNo[p] > 0 /\ CorruptCert(before[p].cert))
            => /\ (pc[p] \in {"rmKey", "genKey", "writeKey", "serial", "sign", "writeCert"}
                     /\ MayChangeDir(p)) => ~fs[certName].exists
               /\ (pc[p] = "writeCert" /\ MayChangeDir(p))
                     => \E w \in WriteFile(fs[certName], EncodeToMemory("CERTIFICATE", certDer[p]),
                                           Perm0444, callNo[p]) : w.ok
               /\ (Returned(p) /\ ret[p].err # "nil")
                     => ret[p].err \in GenerationErrors /\ ret[p].err = failed[p]
               /\ (Returned(p) /\ ret[p].err = "nil") => ReturnedPaths(p) /\ FreshPair(p)

\* C5 witness: getCerts has returned paths from a directory whose certificate
\* file had bytes after its block
C5_Witness ==
    \E p \in Procs :
        /\ ReturnedPaths(p)
        /\ before[p].cert.trailing
        /\ Len(before[p].cert.blocks) = 1
        /\ FreshPair(p)

\* C6: with the key file absent and a certificate on disk that covers the
\* request, getCerts never returns paths for the old certificate: a return of
\* paths leaves a key and a certificate both written by this call, as a pair.
C6_MissingKeyRegenerates ==
    \A p \in Procs :
        (/\ callNo[p] > 0
         /\ ~before[p].key.exists
         /\ LoadsAsCert(before[p].cert)
         /\ Covers(before[p].cert, requested[p]))
            => /\ (Returned(p) /\ ret[p].certFile # <<>>)
                     => /\ ReturnedPaths(p)
                        /\ FreshPair(p)
                        /\ fs[certName] # before[p].cert
               /\ (Returned(p) /\ fs[certName] = before[p].cert) => ret[p].err # "nil"

\* C6 witness: paths returned from a directory that held a covering certificate
\* and no key
C6_Witness ==
    \E p \in Procs :
        /\ ReturnedPaths(p)
        /\ ~before[p].key.exists
        /\ LoadsAsCert(before[p].cert)
        /\ Covers(before[p].cert, requested[p])
        /\ requested[p].ips = {Loopback}
        /\ FreshPair(p)

\* C7: whenever getCerts has returned, with paths or with an error, the
\* directory holds both files as they were before the call or both files of the
\* newly generated pair.
C7_TransactionalAtReturn ==
    \A p \in Procs : Returned(p) => Untouched(p) \/ FreshPair(p)

\* C8: in every state, also between the steps of a regeneration, a certificate
\* and a key file that are both on disk come from the same invocation, and when
\* both load the certificate's public key is that of the key in the key file.
C8_PairOnDiskMatches ==
    (fs[certName].exists /\ fs[keyName].exists)
        => /\ fs[certName].by = fs[keyName].by
           /\ (LoadsAsCert(fs[certName]) /\ LoadsAsKey(fs[keyName]))
                 => PairMatches(fs[certName], fs[keyName])

\* C8 witness: inside a regeneration over an existing pair, both new files are
\* on disk and getCerts has not yet returned
C8_Witness ==
    \E p \in Procs :
        /\ pc[p] = "parse"
        /\ LoadsAsCert(before[p].cert)
        /\ LoadsAsKey(before[p].key)
        /\ KeyIn(before[p].key) # key[p]
        /\ FreshPair(p)

\* the order of the steps of one invocation
Rank(l) ==
    CASE l = "idle" -> 0
      [] l = "mkdir" -> 1
      [] l = "rmCert" -> 2
      [] l = "rmKey" -> 3
      [] l = "genKey" -> 4
      [] l = "writeKey" -> 5
      [] l = "serial" -> 6
      [] l = "sign" -> 7
      [] l = "writeCert" -> 8
      [] l = "parse" -> 9
      [] l = "done" -> 10

\* C9, at return: paths are returned exactly when there is no error, only when
\* no step failed and both files were written by this call; a failed step is
\* the error returned.
C9_AtReturn ==
    \A p \in Procs :
        Returned(p) =>
            /\ (ret[p].err = "nil") <=> (ret[p].certFile # <<>> \/ ret[p].keyFile # <<>>)
            /\ (ret[p].err = "nil") => ReturnedPaths(p) /\ failed[p] = "none" /\ FreshPair(p)
            /\ (failed[p] # "none") => ret[p].err = failed[p]

\* C9, step by step: the step at which a library call fails is the one that
\* returns the error; no step is taken twice; after the return the files stay.
C9_Steps ==
    \A p \in Procs :
        /\ (failed[p] = "none" /\ failed'[p] # "none")
              => /\ pc'[p] = "done"
                 /\ ret'[p].err = failed'[p]
                 /\ ret'[p].certFile = <<>>
                 /\ ret'[p].keyFile = <<>>
        /\ (pc'[p] # pc[p]) => (pc'[p] = "idle" \/ Rank(pc'[p]) > Rank(pc[p]))
        /\ (pc[p] = "done") => fs' = fs

\* C9: every failure on the generation path makes getCerts return an error and
\* no paths, without retrying and without running the later steps; paths are
\* returned only when both files were written.
C9_FailuresPropagate == []C9_AtReturn /\ [][C9_Steps]_vars

\* C9 witness: signing failed after the key file was written, and getCerts
\* returned that error with the certificate file unwritten
C9_Witness ==
    \E p \in Procs :
        /\ Returned(p)
        /\ failed[p] = "CreateCertificate"
        /\ ret[p].err = "CreateCertificate"
        /\ fs[keyName].by = callNo[p]
        /\ ~fs[certName].exists

\* C10: after a successful regeneration the key file may be read by its owner
\* only and written by no one; the certificate file may be read by everyone and
\* written by no one.
C10_FileModes ==
    \A p \in Procs :
        (ReturnedPaths(p) /\ FreshPair(p))
            => /\ fs[keyName].mode = {"ur"}
               /\ {"ur", "gr", "or"} \subseteq fs[certName].mode
               /\ fs[certName].mode \cap {"uw", "gw", "ow"} = {}

\* the invocation of p has drawn its serial number
HasSerial(p) == pc[p] \in {"sign", "writeCert", "parse"}

\* the step of generateCert that draws the serial number n
DrawsSerial(p, n) == SerialNumber(p) /\ serialNumber'[p] = n

\* the serial numbers that are held by a local or stand in a certificate on disk
SerialsInUse ==
    {serialNumber[p] : p \in {q \in Procs : HasSerial(q)}}
    \cup (IF LoadsAsCert(fs[certName]) THEN {CertIn(fs[certName]).serial} ELSE {})

\* C11: the serial number is drawn from exactly [0, 2^63): every serial s has
\* 0 <= s < 2^63, and every integer of that range, 2^63 - 1 included, can be
\* drawn. (2^63 is MaxInt64 + 1 at the modelled width.)
C11_SerialRangeToTwoPow63 ==
    /\ \A s \in SerialsInUse : 0 <= s /\ s < MaxInt64 + 1
    /\ \A p \in Procs :
        pc[p] = "serial" => \A n \in 0..MaxInt64 : ENABLED DrawsSerial(p, n)

\* C11 as amended: the serial number is drawn from exactly [0, 2^63 - 1): every
\* serial s has 0 <= s < MaxInt64, and every integer of that range, 2^63 - 2
\* included, can be drawn.
C11_SerialRangeBelowMaxInt64 ==
    /\ \A s \in SerialsInUse : 0 <= s /\ s < MaxInt64
    /\ \A p \in Procs :
        pc[p] = "serial" => \A n \in 0..(MaxInt64 - 1) : ENABLED DrawsSerial(p, n)

\* C11 witness: the largest serial number of the range has been drawn and
\* stands in the certificate on disk
C11_Witness ==
    \E p \in Procs :
        /\ pc[p] = "parse"
        /\ serialNumber[p] = MaxInt64 - 1
        /\ LoadsAsCert(fs[certName])
        /\ CertIn(fs[certName]).serial = MaxInt64 - 1

\* the case the claim names: key file present, certificate loaded as exactly one
\* valid block, every requested name and address in the certificate
ReuseCase(r) ==
    /\ fs[keyName].exists
    /\ LoadsAsCert(fs[certName])
    /\ r.dns \subseteq CertIn(fs[certName]).dns
    /\ r.ips \subseteq CertIn(fs[certName]).ips

\* the step in which p's call decides
Decides(p) == pc[p] = "idle" /\ pc'[p] # "idle"
DecidesReuse(p) == pc'[p] = "done" /\ ret'[p].err = "nil" /\ fs' = fs
DecidesRegenerate(p) == pc'[p] = "mkdir" /\ ret'[p] = NoReturn

BetweenWrites(p) == pc[p] \in {"serial", "sign", "writeCert"}

\* C13, the missing lock: while one call is between its two writes, another
\* process can begin a call, and a call already begun can take its next step
\* (its os.Remove and os.WriteFile included); nothing makes it wait.
C13_NoMutualExclusion ==
    \A p, q \in Procs :
        (p # q /\ BetweenWrites(p))
            => /\ (pc[q] = "idle" /\ calls < Cardinality(Procs)) => ENABLED Start(q)
               /\ (pc[q] # "idle") => ENABLED Step(q)

\* C13 witness: a call has returned paths while the key file on disk was written
\* by the other call and the certificate file by this one, and they are no pair
C13_Witness ==
    \E p, q \in Procs :
        /\ p # q
        /\ ReturnedPaths(p)
        /\ LoadsAsCert(fs[certName])
        /\ LoadsAsKey(fs[keyName])
        /\ fs[certName].by = callNo[p]
        /\ fs[keyName].by = callNo[q]
        /\ ~PairMatches(fs[certName], fs[keyName])

\* ------------------------------------------- go/client: the load generator
\* The client talks to a server that is already listening: the server side of
\* the model stays as it is while the client runs.
ServerAtRest ==
    /\ dirExists = TRUE
    /\ fs = [n \in Paths |-> IF n = certName THEN CertFileOf(1, 0) ELSE KeyFileOf(1)]
    /\ umask = Umask022
    /\ asRoot = FALSE
    /\ dirWritable = TRUE
    /\ pc = [p \in Procs |-> "idle"]
    /\ requested = [p \in Procs |-> NoRequest]
    /\ key = [p \in Procs |-> 0]
    /\ serialNumber = [p \in Procs |-> 0]
    /\ certDer = [p \in Procs |-> GarbageDER]
    /\ ret = [p \in Procs |-> NoReturn]
    /\ callNo = [p \in Procs |-> 0]
    /\ before = [p \in Procs |-> NoBefore]
    /\ failed = [p \in Procs |-> "none"]
    /\ calls = 0
    /\ lastDone = NoOutcome

\* the values of -interval: none, or a positive duration
Intervals == {0, 1}

\* main has parsed its flags and made ctx with signal.NotifyContext; no
\* goroutine is started yet. An interrupt may arrive from here on.
InitClient ==
    /\ ServerAtRest
    /\ ctxDone = FALSE
    /\ interval \in Intervals
    /\ urlValid \in BOOLEAN
    /\ mainPc = "spawn"
    /\ wg = 0
    /\ wpc = [w \in Workers |-> "off"]
    /\ tick = [w \in Workers |-> FALSE]
    /\ live = [w \in Workers |-> FALSE]
    /\ reqs = [w \in Workers |-> 0]
    /\ after = [w \in Workers |-> 0]

\* a counter that is followed up to MaxReqs
Incr(n) == IF n < MaxReqs THEN n + 1 ELSE n

\* os.Interrupt is delivered: the context of signal.NotifyContext is cancelled
Interrupt ==
    /\ mainPc \in {"spawn", "wait"}
    /\ ~ctxDone
    /\ ctxDone' = TRUE
    /\ UNCHANGED <<interval, urlValid, mainPc, wg, wpc, tick, live, reqs, after>>
    /\ UNCHANGED serverVars

\* wg.Add(*threads) and the loop of go statements
MainSpawn ==
    /\ mainPc = "spawn"
    /\ wg' = MaxThreads
    /\ wpc' = [w \in Workers |-> "start"]
    /\ mainPc' = "wait"
    /\ UNCHANGED <<ctxDone, interval, urlValid, tick, live, reqs, after>>
    /\ UNCHANGED serverVars

\* wg.Wait() returns when the counter is zero; main returns, the deferred
\* cancel() runs and the process ends
MainWait ==
    /\ mainPc = "wait"
    /\ wg = 0
    /\ mainPc' = "exit"
    /\ ctxDone' = TRUE
    /\ UNCHANGED <<interval, urlValid, wg, wpc, tick, live, reqs, after>>
    /\ UNCHANGED serverVars

\* the top of doClient: the locals, the deferred report, and the ticker when
\* interval > 0
DoClientStart(w) ==
    /\ wpc[w] = "start"
    /\ wpc' = [wpc EXCEPT ![w] = "loop"]
    /\ UNCHANGED <<ctxDone, interval, urlValid, mainPc, wg, tick, live, reqs, after>>
    /\ UNCHANGED serverVars

\* the runtime's timer sends on ticker.C, a channel that holds one tick; a tick
\* that finds the channel full is dropped
Tick(w) ==
    /\ interval > 0
    /\ wpc[w] \in {"loop", "do", "wait"}
    /\ ~tick[w]
    /\ tick' = [tick EXCEPT ![w] = TRUE]
    /\ UNCHANGED <<ctxDone, interval, urlValid, mainPc, wg, wpc, live, reqs, after>>
    /\ UNCHANGED serverVars

\* doClient returns: the deferred ticker.Stop() and report run, then wg.Done()
\* of the goroutine
Return(w) ==
    /\ wpc' = [wpc EXCEPT ![w] = "returned"]
    /\ wg' = wg - 1
    /\ tick' = [tick EXCEPT ![w] = FALSE]

\* a worker whose request is not bound to the context
NewRequestWithoutContext(w) ==
    /\ wpc[w] = "loop"
    /\ reqs' = [reqs EXCEPT ![w] = Incr(reqs[w])]
    /\ after' = [after EXCEPT ![w] = IF ctxDone THEN Incr(after[w]) ELSE after[w]]
    /\ IF urlValid
         THEN /\ wpc' = [wpc EXCEPT ![w] = "do"]
              /\ live' = [live EXCEPT ![w] = TRUE]
              /\ UNCHANGED <<wg, tick>>
         ELSE /\ Return(w)
              /\ UNCHANGED live
    /\ UNCHANGED <<ctxDone, interval, urlValid, mainPc>>
    /\ UNCHANGED serverVars

\* the head of the loop: reqs += 1 and http.NewRequestWithContext(ctx, ...),
\* which fails on a URL it cannot parse. The request carries ctx: client.Do on
\* a context that is already cancelled gives the error and sends nothing.
NewRequest(w) ==
    /\ wpc[w] = "loop"
    /\ reqs' = [reqs EXCEPT ![w] = Incr(reqs[w])]
    /\ after' = [after EXCEPT ![w] = IF ctxDone THEN Incr(after[w]) ELSE after[w]]
    /\ IF urlValid
         THEN /\ wpc' = [wpc EXCEPT ![w] = "do"]
              /\ live' = [live EXCEPT ![w] = ~ctxDone]
              /\ UNCHANGED <<wg, tick>>
         ELSE /\ Return(w)
              /\ UNCHANGED live
    /\ UNCHANGED <<ctxDone, interval, urlValid, mainPc>>
    /\ UNCHANGED serverVars

\* client.Do(req) returns a response, which is reported and closed
DoResponds(w) ==
    /\ wpc[w] = "do"
    /\ live[w]
    /\ wpc' = [wpc EXCEPT ![w] = "wait"]
    /\ UNCHANGED <<ctxDone, interval, urlValid, mainPc, wg, tick, live, reqs, after>>
    /\ UNCHANGED serverVars

\* client.Do(req) returns an error (the dial, the transport, or the cancelled
\* context): doClient returns
DoFails(w) ==
    /\ wpc[w] = "do"
    /\ Return(w)
    /\ UNCHANGED <<ctxDone, interval, urlValid, mainPc, live, reqs, after>>
    /\ UNCHANGED serverVars

\* wait(): true at once without a ticker; with one, a select over ctx.Done()
\* and ticker.C, which takes either case when both are ready
Wait(w) ==
    /\ wpc[w] = "wait"
    /\ IF interval > 0
         THEN \/ /\ ctxDone
                 /\ Return(w)
              \/ /\ tick[w]
                 /\ tick' = [tick EXCEPT ![w] = FALSE]
                 /\ wpc' = [wpc EXCEPT ![w] = "loop"]
                 /\ UNCHANGED wg
         ELSE /\ wpc' = [wpc EXCEPT ![w] = "loop"]
              /\ UNCHANGED <<wg, tick>>
    /\ UNCHANGED <<ctxDone, interval, urlValid, mainPc, live, reqs, after>>
    /\ UNCHANGED serverVars

NextClient ==
    \/ Interrupt
    \/ MainSpawn
    \/ MainWait
    \/ \E w \in Workers : DoClientStart(w)
    \/ \E w \in Workers : Tick(w)
    \/ \E w \in Workers : NewRequest(w)
    \/ \E w \in Workers : DoResponds(w)
    \/ \E w \in Workers : DoFails(w)
    \/ \E w \in Workers : Wait(w)

\* The Go scheduler runs every goroutine that can run. A request in flight is
\* bound to ctx, so once ctx is cancelled client.Do returns. Nothing is assumed
\* of the interrupt, of the ticker, or of the server before the cancellation.
FairClient ==
    /\ WF_vars(MainSpawn)
    /\ WF_vars(MainWait)
    /\ \A w \in Workers :
        /\ WF_vars(DoClientStart(w))
        /\ WF_vars(NewRequest(w))
        /\ WF_vars(Wait(w))
        /\ WF_vars(ctxDone /\ (DoResponds(w) \/ DoFails(w)))

SpecClient == InitClient /\ [][NextClient]_vars /\ FairClient

\* every worker has returned and main has left wg.Wait
ClientEnded == (\A w \in Workers : wpc[w] = "returned") /\ mainPc = "exit"

\* C14, the client's shutdown: from the cancellation of the context on, every
\* doClient worker returns and main ends, with or without a ticker; and a
\* worker begins at most one more request once the context is cancelled.
C14_ShutdownCompletes ==
    /\ [](\A w \in Workers : after[w] <= 1)
    /\ (ctxDone ~> ClientEnded)

\* C14 witness: the interrupt came while the workers were running, one of them
\* went round the loop once more, and the client has ended
C14_Witness ==
    /\ ClientEnded
    /\ \E w \in Workers : after[w] = 1 /\ reqs[w] = MaxReqs
    /\ \E w \in Workers : after[w] = 0 /\ reqs[w] > 0

====
